---- MODULE Spec2Model ----
(***************************************************************************)
(* A model of the two components of the practice tool that the design      *)
(* document describes:                                                     *)
(*   - hudhook/src/mh.rs        : the Hook record and its queue/apply      *)
(*                                operations over the MinHook primitive;   *)
(*   - practice-tool/src/util.rs: KeyState, the key edge detector.         *)
(* The two components share no state.  Spec is the hook engine: one        *)
(* control thread that calls the operations of Hook one after another,     *)
(* each primitive call of apply_queue a step of its own, while other       *)
(* threads call the primitive and the logger directly.  SpecKey is the     *)
(* edge detector with one polling thread and SpecKeyMT the edge detector   *)
(* with NThreads polling threads.                                          *)
(***************************************************************************)
EXTENDS Integers, Sequences, FiniteSets, TLC

(* ------------------------------- bounds -------------------------------- *)
\* Threads that poll the same KeyState in SpecKeyMT.
NThreads == 2
\* Calls to keyup/keydown (swaps) recorded in one behaviour.
MaxSwaps == 3
\* Hook records constructed in one behaviour.
MaxHooks == 2
\* Length of the slice handed to apply_queue.
MaxBatch == 2

Threads == 1..NThreads

Min(a, b) == IF a < b THEN a ELSE b

(***************************************************************************)
(*                    practice-tool/src/util.rs: KeyState                  *)
(***************************************************************************)
VARIABLES
    keyDown,    \* environment: the key is physically down
    keyLatch,   \* environment: the key was pressed after the previous call
                \* to GetAsyncKeyState
    born,       \* KeyState::new has run
    stored,     \* KeyState.1, the AtomicBool
    pc,         \* per thread: "idle", or "swap" (update has sampled and is
                \* about to swap)
    loc,        \* per thread: the locals of the call in progress
    lastRet,    \* the most recently completed keyup/keydown call
    swapLog,    \* history: the swaps on KeyState.1, in their order
    seed,       \* history: the value KeyState::new stored
    seedDown,   \* history: the key was physically down in KeyState::new
    polled,     \* history: some call has sampled since construction
    phase,      \* history: "held" while the key has been down ever since
                \* construction, "released" from its release until the next
                \* sample or press, "other" afterwards
    hold,       \* history: presses since construction, counted up to 2
    holdPolls,  \* history: samples taken during the current hold, up to 2
    lastSample, \* history: the most recently taken sample of the key
    downEdges   \* history: for every call whose update returned the pair
                \* (up, down), the press its sample was taken in, as
                \* counted by hold

VARIABLES
    hooks,      \* the Hook records constructed so far, in construction order
    mhInit,     \* primitive: MH_Initialize has been called (and not undone)
    mhTable,    \* primitive: its hook entry for each target address
    mhCalls,    \* the primitive calls the latest Hook operation has made so
                \* far, in order
    marks,      \* history: per record, the latest queue_* call made on it
                \* since the last apply_queue
    lastOp,     \* the latest Hook operation and what it returned
    logLevel,   \* log::max_level(), the level the installed logger allows
    aq          \* the apply_queue call in flight, if any, and the index of
                \* the element of its slice that the loop is at

hookVars == <<hooks, mhInit, mhTable, mhCalls, marks, lastOp, logLevel, aq>>

keyVars == <<keyDown, keyLatch, born, stored, pc, loc, lastRet, swapLog, seed,
             seedDown, polled, phase, hold, holdPolls, lastSample,
             downEdges>>

\* winuser GetAsyncKeyState(vkey): a 16-bit value whose most significant bit
\* is set when the key is down and whose least significant bit is set when
\* the key was pressed after the previous call to GetAsyncKeyState.
GetAsyncKeyState(down, latch) ==
    (IF down THEN 32768 ELSE 0) + (IF latch THEN 1 ELSE 0)

\* KeyState::is_key_down on the value GetAsyncKeyState returned.
is_key_down(raw) == (raw % 2) # 0

\* AtomicBool::fetch_or in place of swap.
swap_or(cell, state) == [cell |-> cell \/ state, prev |-> cell]

\* AtomicBool::swap(state, SeqCst): the new cell and the value returned.
swap(cell, state) == [cell |-> state, prev |-> cell]

\* The result expressions of keyup and keydown over update's pair.
keyup(prev_state, state) == prev_state /\ ~state

\* keydown reporting the level instead of the edge.
keydown_level(prev_state, state) == state
keydown(prev_state, state) == ~prev_state /\ state

Queries == {"keyup", "keydown"}

NoLoc == [query |-> "none", state |-> FALSE, prev |-> FALSE, phys |-> FALSE,
          first |-> FALSE, phase |-> "other", hold |-> 0, holdIdx |-> 0,
          seq |-> 0]

NoRet == [valid |-> FALSE, query |-> "none", prev |-> FALSE,
          state |-> FALSE, ret |-> FALSE, phys |-> FALSE, first |-> FALSE,
          phase |-> "other", hold |-> 0, holdIdx |-> 0, seq |-> 0]

\* Before KeyState::new: the key is up and has not been pressed.
InitKey ==
    /\ keyDown = FALSE
    /\ keyLatch = FALSE
    /\ born = FALSE
    /\ stored = FALSE
    /\ seed = FALSE
    /\ seedDown = FALSE
    /\ pc = [t \in Threads |-> "idle"]
    /\ loc = [t \in Threads |-> NoLoc]
    /\ lastRet = NoRet
    /\ swapLog = << >>
    /\ polled = FALSE
    /\ phase = "other"
    /\ hold = 0
    /\ holdPolls = 0
    /\ lastSample = FALSE
    /\ downEdges = << >>

\* KeyState::new(vkey): one sample seeds the AtomicBool.
KeyState_new(raw) == is_key_down(raw)

KeyStateNew ==
    /\ ~born
    /\ born' = TRUE
    /\ stored' = KeyState_new(GetAsyncKeyState(keyDown, keyLatch))
    /\ seed' = KeyState_new(GetAsyncKeyState(keyDown, keyLatch))
    /\ keyLatch' = FALSE
    /\ seedDown' = keyDown
    /\ phase' = (IF keyDown THEN "held" ELSE "other")
    /\ lastSample' = KeyState_new(GetAsyncKeyState(keyDown, keyLatch))
    /\ UNCHANGED <<keyDown, pc, loc, lastRet, swapLog, polled, hold, holdPolls,
                   downEdges, hookVars>>

\* The user presses the key.
Press ==
    /\ ~keyDown
    /\ keyDown' = TRUE
    /\ keyLatch' = TRUE
    /\ phase' = "other"
    /\ hold' = (IF born THEN Min(hold + 1, 2) ELSE hold)
    /\ holdPolls' = 0
    /\ UNCHANGED <<born, stored, pc, loc, lastRet, swapLog, seed, seedDown,
                   polled, lastSample, downEdges, hookVars>>

\* The user releases the key.
Release ==
    /\ keyDown
    /\ keyDown' = FALSE
    /\ phase' = (IF phase = "held" THEN "released" ELSE "other")
    /\ UNCHANGED <<keyLatch, born, stored, pc, loc, lastRet, swapLog, seed,
                   seedDown, polled, hold, holdPolls, lastSample,
                   downEdges, hookVars>>

InFlight == Cardinality({t \in Threads : pc[t] # "idle"})

\* Thread t enters keyup or keydown; update takes its sample (line 66).
UpdateSample(t, q) ==
    /\ born
    /\ pc[t] = "idle"
    /\ Len(swapLog) + InFlight < MaxSwaps
    /\ LET state == is_key_down(GetAsyncKeyState(keyDown, keyLatch))
           idx == IF keyDown THEN Min(holdPolls + 1, 2) ELSE 0
       IN  /\ loc' = [loc EXCEPT ![t] =
                        [query |-> q, state |-> state, prev |-> FALSE,
                         phys |-> keyDown, first |-> ~polled, phase |-> phase,
                         hold |-> hold, holdIdx |-> idx,
                         seq |-> Len(swapLog) + InFlight + 1]]
           /\ holdPolls' = (IF keyDown THEN idx ELSE holdPolls)
           /\ lastSample' = state
    /\ keyLatch' = FALSE
    /\ pc' = [pc EXCEPT ![t] = "swap"]
    /\ polled' = TRUE
    /\ phase' = (IF phase = "released" THEN "other" ELSE phase)
    /\ UNCHANGED <<keyDown, born, stored, lastRet, swapLog, seed, seedDown,
                   hold, downEdges, hookVars>>

\* A swap that loads and stores in two steps.
UpdateSwapTorn(t) ==
    \/ /\ pc[t] = "swap"
       /\ loc' = [loc EXCEPT ![t].prev = stored]
       /\ pc' = [pc EXCEPT ![t] = "store"]
       /\ UNCHANGED <<keyDown, keyLatch, born, stored, lastRet, swapLog, seed,
                      seedDown, polled, phase, hold, holdPolls, lastSample,
                      downEdges, hookVars>>
    \/ /\ pc[t] = "store"
       /\ stored' = loc[t].state
       /\ swapLog' = Append(swapLog, [prev |-> loc[t].prev,
                                      written |-> loc[t].state])
       /\ lastRet' = [valid |-> TRUE, query |-> loc[t].query,
                      prev |-> loc[t].prev, state |-> loc[t].state,
                      ret |-> IF loc[t].query = "keyup"
                              THEN keyup(loc[t].prev, loc[t].state)
                              ELSE keydown(loc[t].prev, loc[t].state),
                      phys |-> loc[t].phys, first |-> loc[t].first,
                      phase |-> loc[t].phase, hold |-> loc[t].hold,
                      holdIdx |-> loc[t].holdIdx, seq |-> loc[t].seq]
       /\ downEdges' = (IF keydown(loc[t].prev, loc[t].state)
                        THEN Append(downEdges, loc[t].hold) ELSE downEdges)
       /\ pc' = [pc EXCEPT ![t] = "idle"]
       /\ loc' = [loc EXCEPT ![t] = NoLoc]
       /\ UNCHANGED <<keyDown, keyLatch, born, seed, seedDown, polled, phase,
                      hold, holdPolls, lastSample, hookVars>>

\* An update that stores its sample only when the query reports an edge.
UpdateSwapPeek(t) ==
    /\ pc[t] = "swap"
    /\ LET ret == IF loc[t].query = "keyup"
                  THEN keyup(stored, loc[t].state)
                  ELSE keydown(stored, loc[t].state)
       IN  /\ stored' = (IF ret THEN loc[t].state ELSE stored)
           /\ swapLog' = Append(swapLog, [prev |-> stored,
                                          written |-> loc[t].state])
           /\ lastRet' = [valid |-> TRUE, query |-> loc[t].query,
                          prev |-> stored, state |-> loc[t].state,
                          ret |-> ret,
                          phys |-> loc[t].phys, first |-> loc[t].first,
                          phase |-> loc[t].phase, hold |-> loc[t].hold,
                          holdIdx |-> loc[t].holdIdx, seq |-> loc[t].seq]
           /\ downEdges' = (IF keydown(stored, loc[t].state)
                            THEN Append(downEdges, loc[t].hold)
                            ELSE downEdges)
    /\ pc' = [pc EXCEPT ![t] = "idle"]
    /\ loc' = [loc EXCEPT ![t] = NoLoc]
    /\ UNCHANGED <<keyDown, keyLatch, born, seed, seedDown, polled, phase,
                   hold, holdPolls, lastSample, hookVars>>

\* Thread t's update swaps its sample into the AtomicBool (line 67) and
\* returns the pair (line 68); keyup or keydown returns its expression.
UpdateSwap(t) ==
    /\ pc[t] = "swap"
    /\ LET s == swap(stored, loc[t].state)
       IN  /\ stored' = s.cell
           /\ swapLog' = Append(swapLog, [prev |-> s.prev,
                                          written |-> loc[t].state])
           /\ lastRet' = [valid |-> TRUE, query |-> loc[t].query,
                          prev |-> s.prev, state |-> loc[t].state,
                          ret |-> IF loc[t].query = "keyup"
                                  THEN keyup(s.prev, loc[t].state)
                                  ELSE keydown(s.prev, loc[t].state),
                          phys |-> loc[t].phys, first |-> loc[t].first,
                          phase |-> loc[t].phase, hold |-> loc[t].hold,
                          holdIdx |-> loc[t].holdIdx, seq |-> loc[t].seq]
           /\ downEdges' = (IF keydown(s.prev, loc[t].state)
                            THEN Append(downEdges, loc[t].hold)
                            ELSE downEdges)
    /\ pc' = [pc EXCEPT ![t] = "idle"]
    /\ loc' = [loc EXCEPT ![t] = NoLoc]
    /\ UNCHANGED <<keyDown, keyLatch, born, seed, seedDown, polled, phase,
                   hold, holdPolls, lastSample, hookVars>>

\* One polling thread, the use the design intends.
NextKey ==
    \/ Press
    \/ Release
    \/ KeyStateNew
    \/ \E q \in Queries : UpdateSample(1, q)
    \/ UpdateSwap(1)

\* Several threads polling the same KeyState.
NextKeyMT ==
    \/ Press
    \/ Release
    \/ KeyStateNew
    \/ \E t \in Threads, q \in Queries : UpdateSample(t, q)
    \/ \E t \in Threads : UpdateSwap(t)


(***************************************************************************)
(*                        hudhook/src/mh.rs: Hook                          *)
(***************************************************************************)
vars == <<keyVars, hookVars>>

\* null_mut()
NULL == 0

\* Addresses of functions in the host process.
Addrs == {1, 2}

\* The trampoline MinHook allocates for a target: some non-null address.
TrampolineFor(target) == target + 100

NoEntry == [created |-> FALSE, detour |-> NULL, trampoline |-> NULL,
            isEnabled |-> FALSE, queueEnable |-> FALSE]

(* ---- the MinHook primitive (extern "system", lines 48-57), by its   ---- *)
(* ---- documented contract: each returns its status and the new table ---- *)

MH_Initialize(init) ==
    IF init THEN [status |-> "MH_ERROR_ALREADY_INITIALIZED", init |-> init]
    ELSE [status |-> "MH_OK", init |-> TRUE]

MH_Uninitialize(init) ==
    IF ~init THEN [status |-> "MH_ERROR_NOT_INITIALIZED", init |-> init]
    ELSE [status |-> "MH_OK", init |-> FALSE]

MH_CreateHook(init, table, pTarget, pDetour) ==
    IF ~init
    THEN [status |-> "MH_ERROR_NOT_INITIALIZED", table |-> table,
          original |-> NULL]
    ELSE IF table[pTarget].created
    THEN [status |-> "MH_ERROR_ALREADY_CREATED", table |-> table,
          original |-> NULL]
    ELSE [status |-> "MH_OK",
          table |-> [table EXCEPT ![pTarget] =
                        [created |-> TRUE, detour |-> pDetour,
                         trampoline |-> TrampolineFor(pTarget),
                         isEnabled |-> FALSE, queueEnable |-> FALSE]],
          original |-> TrampolineFor(pTarget)]

\* MH_EnableHook (enable = TRUE) and MH_DisableHook (enable = FALSE).
MH_SetHook(init, table, pTarget, enable) ==
    IF ~init THEN [status |-> "MH_ERROR_NOT_INITIALIZED", table |-> table]
    ELSE IF ~table[pTarget].created
    THEN [status |-> "MH_ERROR_NOT_CREATED", table |-> table]
    ELSE IF table[pTarget].isEnabled = enable
    THEN [status |-> IF enable THEN "MH_ERROR_ENABLED" ELSE "MH_ERROR_DISABLED",
          table |-> table]
    ELSE [status |-> "MH_OK",
          table |-> [table EXCEPT ![pTarget].isEnabled = enable,
                                  ![pTarget].queueEnable = enable]]

MH_QueueHook(init, table, pTarget, enable) ==
    IF ~init THEN [status |-> "MH_ERROR_NOT_INITIALIZED", table |-> table]
    ELSE IF ~table[pTarget].created
    THEN [status |-> "MH_ERROR_NOT_CREATED", table |-> table]
    ELSE [status |-> "MH_OK",
          table |-> [table EXCEPT ![pTarget].queueEnable = enable]]

MH_QueueEnableHook(init, table, pTarget) ==
    MH_QueueHook(init, table, pTarget, TRUE)

MH_QueueDisableHook(init, table, pTarget) ==
    MH_QueueHook(init, table, pTarget, FALSE)

MH_ApplyQueued(init, table) ==
    IF ~init THEN [status |-> "MH_ERROR_NOT_INITIALIZED", table |-> table]
    ELSE [status |-> "MH_OK",
          table |-> [a \in Addrs |->
                        [table[a] EXCEPT !.isEnabled = table[a].queueEnable]]]

Call(fn, target, status) == [fn |-> fn, target |-> target, status |-> status]

(* ------------------------------ impl Hook ------------------------------ *)

\* Hook::new(addr, hook_impl)
Hook_new(addr, hook_impl) ==
    [addr |-> addr, hook_impl |-> hook_impl, trampoline |-> NULL]

\* Hook::trampoline(&self)
trampoline(self) == self.trampoline

\* queue_enable calling MH_EnableHook, which patches at once.
queue_enable_immediate(init, table, self) ==
    LET r == MH_SetHook(init, table, self.hook_impl, TRUE)
    IN  [table |-> r.table,
         calls |-> <<Call("MH_EnableHook", self.hook_impl, r.status)>>,
         ret |-> "unit"]

\* Hook::queue_enable(&self): the table afterwards and the calls made.
queue_enable(init, table, self) ==
    LET r == MH_QueueEnableHook(init, table, self.hook_impl)
    IN  [table |-> r.table,
         calls |-> <<Call("MH_QueueEnableHook", self.hook_impl, r.status)>>,
         ret |-> "unit"]

\* Hook::queue_disable(&self)
queue_disable(init, table, self) ==
    LET r == MH_QueueDisableHook(init, table, self.hook_impl)
    IN  [table |-> r.table,
         calls |-> <<Call("MH_QueueDisableHook", self.hook_impl, r.status)>>,
         ret |-> "unit"]

\* The levels log::max_level() takes here: no logger installed (the level
\* is Off, as are Error, Warn and Info for debug!) and a logger at Debug.
LevelFilters == {"Off", "Debug"}

\* The guard of the debug! macro: its arguments are evaluated, and the line
\* is logged, only when the maximum level is Debug or Trace.
debug_enabled(max_level) == max_level \in {"Debug", "Trace"}

\* One iteration of the loop of Hook::apply_queue (line 90): the call of
\* MH_QueueEnableHook is an argument of debug!.
apply_queue_submit(max_level, init, table, hook) ==
    IF debug_enabled(max_level)
    THEN LET r == MH_QueueEnableHook(init, table, hook.addr)
         IN  [table |-> r.table,
              calls |-> <<Call("MH_QueueEnableHook", hook.addr, r.status)>>]
    ELSE [table |-> table, calls |-> << >>]

\* The statement after the loop of Hook::apply_queue (line 92): the call of
\* MH_ApplyQueued is an argument of debug!.
apply_queue_commit(max_level, init, table) ==
    IF debug_enabled(max_level)
    THEN LET r == MH_ApplyQueued(init, table)
         IN  [table |-> r.table,
              calls |-> <<Call("MH_ApplyQueued", NULL, r.status)>>,
              ret |-> "unit"]
    ELSE [table |-> table, calls |-> << >>, ret |-> "unit"]

Op(op, hs, ret) == [op |-> op, hs |-> hs, ret |-> ret]

\* No apply_queue call is in flight.
NoApply == [active |-> FALSE, i |-> 1]

InitHook ==
    /\ hooks = << >>
    /\ mhInit = FALSE
    /\ mhTable = [a \in Addrs |-> NoEntry]
    /\ mhCalls = << >>
    /\ marks = << >>
    /\ lastOp = Op("none", << >>, "unit")
    /\ logLevel = "Off"
    /\ aq = NoApply

HookIds == 1..Len(hooks)

\* Slices of references to constructed records, repeats allowed.
Batches == UNION {[1..n -> HookIds] : n \in 0..MaxBatch}

\* The marks after a direct primitive call for a target: the requests made
\* through records of that target are superseded.
ClearMarks(target) ==
    [i \in HookIds |-> IF hooks[i].addr = target THEN "none" ELSE marks[i]]

(* ---- other threads of the application: direct calls of the primitive ---- *)
(* ---- (pub extern, lines 48-57) and of the logger, at any moment      ---- *)

\* The application installs a logger or changes log::max_level().
AppSetMaxLevel(l) ==
    /\ logLevel' = l
    /\ UNCHANGED <<hooks, mhInit, mhTable, mhCalls, marks, lastOp, aq, keyVars>>

\* The application initializes the primitive.
AppInitialize ==
    /\ mhInit' = MH_Initialize(mhInit).init
    /\ UNCHANGED <<hooks, mhTable, mhCalls, marks, lastOp, logLevel, aq,
                   keyVars>>

\* The application uninitializes the primitive, which drops every entry.
AppUninitialize ==
    /\ mhInit' = MH_Uninitialize(mhInit).init
    /\ mhTable' = [a \in Addrs |-> NoEntry]
    /\ marks' = [i \in HookIds |-> "none"]
    /\ UNCHANGED <<hooks, mhCalls, lastOp, logLevel, aq, keyVars>>

\* The application registers the hook of a record with the primitive.
AppCreateHook(h) ==
    LET r == MH_CreateHook(mhInit, mhTable, hooks[h].addr, hooks[h].hook_impl)
    IN  /\ mhTable' = r.table
        /\ UNCHANGED <<hooks, mhInit, mhCalls, marks, lastOp, logLevel, aq,
                       keyVars>>

\* The application enables or disables one hook at once.
AppSetHook(h, enable) ==
    LET r == MH_SetHook(mhInit, mhTable, hooks[h].addr, enable)
    IN  /\ mhTable' = r.table
        /\ marks' = ClearMarks(hooks[h].addr)
        /\ UNCHANGED <<hooks, mhInit, mhCalls, lastOp, logLevel, aq, keyVars>>

\* The application calls MH_QueueEnableHook (enable = TRUE) or
\* MH_QueueDisableHook (enable = FALSE) itself, for any address.
AppQueueHook(pTarget, enable) ==
    LET r == IF enable THEN MH_QueueEnableHook(mhInit, mhTable, pTarget)
             ELSE MH_QueueDisableHook(mhInit, mhTable, pTarget)
    IN  /\ mhTable' = r.table
        /\ marks' = ClearMarks(pTarget)
        /\ UNCHANGED <<hooks, mhInit, mhCalls, lastOp, logLevel, aq, keyVars>>

\* The application calls MH_ApplyQueued itself.
AppApplyQueued ==
    LET r == MH_ApplyQueued(mhInit, mhTable)
    IN  /\ mhTable' = r.table
        /\ marks' = [i \in HookIds |-> "none"]
        /\ UNCHANGED <<hooks, mhInit, mhCalls, lastOp, logLevel, aq, keyVars>>

(* ---- the control thread: the operations of Hook, one after another ---- *)

\* Hook::new for any target and any detour.
HookNew(addr, hook_impl) ==
    /\ ~aq.active
    /\ Len(hooks) < MaxHooks
    /\ hooks' = Append(hooks, Hook_new(addr, hook_impl))
    /\ marks' = Append(marks, "none")
    /\ mhCalls' = << >>
    /\ lastOp' = Op("new", <<Len(hooks) + 1>>, "Hook")
    /\ UNCHANGED <<mhInit, mhTable, logLevel, aq, keyVars>>

Trampoline(h) ==
    /\ ~aq.active
    /\ mhCalls' = << >>
    /\ lastOp' = Op("trampoline", <<h>>, trampoline(hooks[h]))
    /\ UNCHANGED <<hooks, mhInit, mhTable, marks, logLevel, aq, keyVars>>

\* queue_enable storing the primitive's trampoline into the record.
QueueEnableWritesRecord(h) ==
    LET r == queue_enable(mhInit, mhTable, hooks[h])
    IN  /\ ~aq.active
        /\ mhTable' = r.table
        /\ mhCalls' = r.calls
        /\ marks' = [marks EXCEPT ![h] = "enable"]
        /\ lastOp' = Op("queue_enable", <<h>>, r.ret)
        /\ hooks' = [hooks EXCEPT ![h].trampoline =
                        TrampolineFor(hooks[h].hook_impl)]
        /\ UNCHANGED <<mhInit, logLevel, aq, keyVars>>

QueueEnable(h) ==
    LET r == queue_enable(mhInit, mhTable, hooks[h])
    IN  /\ ~aq.active
        /\ mhTable' = r.table
        /\ mhCalls' = r.calls
        /\ marks' = [marks EXCEPT ![h] = "enable"]
        /\ lastOp' = Op("queue_enable", <<h>>, r.ret)
        /\ UNCHANGED <<hooks, mhInit, logLevel, aq, keyVars>>

QueueDisable(h) ==
    LET r == queue_disable(mhInit, mhTable, hooks[h])
    IN  /\ ~aq.active
        /\ mhTable' = r.table
        /\ mhCalls' = r.calls
        /\ marks' = [marks EXCEPT ![h] = "disable"]
        /\ lastOp' = Op("queue_disable", <<h>>, r.ret)
        /\ UNCHANGED <<hooks, mhInit, logLevel, aq, keyVars>>

\* Hook::apply_queue is entered with a slice of records; it has not
\* returned yet.
ApplyQueueCall(hs) ==
    /\ ~aq.active
    /\ aq' = [active |-> TRUE, i |-> 1]
    /\ mhCalls' = << >>
    /\ lastOp' = Op("apply_queue", hs, "running")
    /\ UNCHANGED <<hooks, mhInit, mhTable, marks, logLevel, keyVars>>

\* One iteration of its loop (lines 89-91).
ApplyQueueSubmit ==
    /\ aq.active
    /\ aq.i <= Len(lastOp.hs)
    /\ LET r == apply_queue_submit(logLevel, mhInit, mhTable,
                                   hooks[lastOp.hs[aq.i]])
       IN  /\ mhTable' = r.table
           /\ mhCalls' = mhCalls \o r.calls
    /\ aq' = [aq EXCEPT !.i = @ + 1]
    /\ UNCHANGED <<hooks, mhInit, marks, lastOp, logLevel, keyVars>>

\* Line 92 after the loop, and the return.
ApplyQueueCommit ==
    /\ aq.active
    /\ aq.i > Len(lastOp.hs)
    /\ LET r == apply_queue_commit(logLevel, mhInit, mhTable)
       IN  /\ mhTable' = r.table
           /\ mhCalls' = mhCalls \o r.calls
           /\ lastOp' = Op("apply_queue", lastOp.hs, r.ret)
    /\ marks' = [i \in HookIds |-> "none"]
    /\ aq' = NoApply
    /\ UNCHANGED <<hooks, mhInit, logLevel, keyVars>>

NextHook ==
    \/ \E l \in LevelFilters : AppSetMaxLevel(l)
    \/ AppInitialize
    \/ AppUninitialize
    \/ \E h \in HookIds : AppCreateHook(h)
    \/ \E h \in HookIds, e \in BOOLEAN : AppSetHook(h, e)
    \/ \E a \in Addrs, e \in BOOLEAN : AppQueueHook(a, e)
    \/ AppApplyQueued
    \/ \E a \in Addrs, d \in Addrs : HookNew(a, d)
    \/ \E h \in HookIds : Trampoline(h)
    \/ \E h \in HookIds : QueueEnable(h)
    \/ \E h \in HookIds : QueueDisable(h)
    \/ \E hs \in Batches : ApplyQueueCall(hs)
    \/ ApplyQueueSubmit
    \/ ApplyQueueCommit

Init == InitKey /\ InitHook

\* The hook engine.
Spec == Init /\ [][NextHook]_vars

SpecKey == Init /\ [][NextKey]_vars

SpecKeyMT == Init /\ [][NextKeyMT]_vars

(***************************************************************************)
(*                              The claims                                 *)
(***************************************************************************)

Benign == {"MH_OK", "MH_ERROR_ENABLED", "MH_ERROR_DISABLED"}

\* C1: an apply_queue that has returned has made one queue submission per
\* record of the slice, in the order of the slice and each for that record's
\* target address, and has called MH_ApplyQueued once, after the last
\* submission.
C1_SubmitInOrderThenCommit ==
    (lastOp.op = "apply_queue" /\ ~aq.active) =>
        /\ Len(mhCalls) = Len(lastOp.hs) + 1
        /\ \A i \in 1..Len(lastOp.hs) :
              /\ mhCalls[i].fn \in {"MH_QueueEnableHook", "MH_QueueDisableHook"}
              /\ mhCalls[i].target = hooks[lastOp.hs[i]].addr
        /\ mhCalls[Len(mhCalls)].fn = "MH_ApplyQueued"

\* C2: the step in which apply_queue returns, with the primitive
\* initialized, leaves a registered record of the slice that was last marked
\* with queue_disable Disabled, one last marked with queue_enable Enabled,
\* and nothing pending.
C2_CommitsRequestedTransitions ==
    [][(ApplyQueueCommit /\ mhInit) =>
          /\ \A i \in 1..Len(lastOp.hs) :
                LET h == lastOp.hs[i]
                    e == mhTable'[hooks[h].addr]
                IN  (e.created /\ e.detour = hooks[h].hook_impl) =>
                       /\ marks[h] = "disable" => ~e.isEnabled
                       /\ marks[h] = "enable" => e.isEnabled
          /\ \A a \in Addrs :
                mhTable'[a].isEnabled = mhTable'[a].queueEnable]_vars

\* C3: a KeyState constructed with the key down: the first call, a keydown
\* made while the key is still held, reports no edge, and a keyup that is
\* the first call to sample after the key's release reports an edge.
C3_SeededDown ==
    (lastRet.valid /\ seedDown) =>
        /\ (lastRet.first /\ lastRet.phase = "held"
               /\ lastRet.query = "keydown") => ~lastRet.ret
        /\ (lastRet.phase = "released" /\ lastRet.query = "keyup")
               => lastRet.ret

\* C4: a KeyState constructed with the key up, one polling thread: the first
\* poll of the first hold returns (false, true), keydown reporting the edge;
\* every later poll of that hold returns (true, true) and no edge.
C4_HeldKeyPolls ==
    (lastRet.valid /\ ~seedDown /\ lastRet.hold = 1) =>
        /\ lastRet.holdIdx = 1 =>
              /\ ~lastRet.prev
              /\ lastRet.state
              /\ lastRet.query = "keydown" => lastRet.ret
        /\ lastRet.holdIdx = 2 =>
              /\ lastRet.prev
              /\ lastRet.state
              /\ ~lastRet.ret

\* C5: is_key_down returns true exactly when the key is physically down at
\* the moment of the call, in KeyState::new and in every update.
C5_SampleIsPhysicalState ==
    /\ born => seed = seedDown
    /\ \A t \in Threads : pc[t] = "swap" => loc[t].state = loc[t].phys

\* C6: keydown returns true exactly when update returned (up, down), keyup
\* exactly when it returned (down, up), and no pair gives both.
C6_EdgeDefinitions ==
    /\ lastRet.valid =>
          /\ lastRet.query = "keydown" =>
                (lastRet.ret <=> (lastRet.prev = FALSE /\ lastRet.state = TRUE))
          /\ lastRet.query = "keyup" =>
                (lastRet.ret <=> (lastRet.prev = TRUE /\ lastRet.state = FALSE))
    /\ \A p \in BOOLEAN, n \in BOOLEAN : ~(keydown(p, n) /\ keyup(p, n))

\* A keydown call has reported an edge after an earlier call saw the key
\* go from down to up.
C6_Witness ==
    /\ lastRet.valid
    /\ lastRet.query = "keydown"
    /\ lastRet.ret
    /\ Len(swapLog) >= 2
    /\ swapLog[Len(swapLog) - 1].prev
    /\ ~swapLog[Len(swapLog) - 1].written

\* C7: the swaps of concurrent update calls form one order in which each
\* call's previous value is the value the swap before it wrote (the seed for
\* the first), its current value is the one it wrote, and the cell holds the
\* last value written.
C7_SwapOrder ==
    /\ \A k \in 1..Len(swapLog) :
          swapLog[k].prev = (IF k = 1 THEN seed ELSE swapLog[k - 1].written)
    /\ born => stored = (IF swapLog = << >> THEN seed
                         ELSE swapLog[Len(swapLog)].written)
    /\ lastRet.valid =>
          /\ lastRet.prev = swapLog[Len(swapLog)].prev
          /\ lastRet.state = swapLog[Len(swapLog)].written

\* Two calls are in flight with different samples after a swap that changed
\* the cell.
C7_Witness ==
    /\ Len(swapLog) >= 1
    /\ swapLog[1].prev # swapLog[1].written
    /\ \E t \in Threads, u \in Threads :
          /\ pc[t] = "swap"
          /\ pc[u] = "swap"
          /\ loc[t].state # loc[u].state

\* C8: every record that Hook::new returned has a non-null trampoline.
C8_TrampolineNonNull ==
    \A i \in 1..Len(hooks) : trampoline(hooks[i]) # NULL

\* C9: when the primitive reports a status other than success, already
\* enabled or already disabled during queue_enable, queue_disable or
\* apply_queue, the operation returns an error to its caller.
C9_ErrorStatusReturned ==
    (/\ lastOp.op \in {"queue_enable", "queue_disable", "apply_queue"}
     /\ ~aq.active
     /\ \E i \in 1..Len(mhCalls) : mhCalls[i].status \notin Benign)
        => lastOp.ret # "unit"

\* C10: at most one record exists per target address.
C10_OneRecordPerTarget ==
    \A i \in 1..Len(hooks), j \in 1..Len(hooks) :
        hooks[i].addr = hooks[j].addr => i = j

\* C11: a step of queue_enable or queue_disable leaves the Enabled/Disabled
\* state of every hook as it was, and the state of a registered hook changes
\* only in the committing step of apply_queue, in a direct call of the
\* primitive's batch commit or in an immediate enable or disable.
C11_QueueLeavesState ==
    [][/\ (\E h \in HookIds : QueueEnable(h) \/ QueueDisable(h)) =>
             \A a \in Addrs : mhTable'[a].isEnabled = mhTable[a].isEnabled
       /\ \A a \in Addrs :
             (/\ mhTable[a].created
              /\ mhTable'[a].created
              /\ mhTable'[a].isEnabled # mhTable[a].isEnabled)
                 => \/ ApplyQueueCommit
                    \/ AppApplyQueued
                    \/ \E h \in HookIds, e \in BOOLEAN : AppSetHook(h, e)]_vars

\* queue_enable has been accepted by the primitive for a hook that is still
\* Disabled: the request is pending.
C11_Witness ==
    /\ lastOp.op = "queue_enable"
    /\ mhCalls[1].status = "MH_OK"
    /\ mhTable[mhCalls[1].target].queueEnable
    /\ ~mhTable[mhCalls[1].target].isEnabled

\* C12: queue_enable and queue_disable submit their request for the
\* record's target address, the address apply_queue submits for it.
C12_QueueSubmitsTarget ==
    lastOp.op \in {"queue_enable", "queue_disable"} =>
        /\ Len(mhCalls) = 1
        /\ mhCalls[1].target = hooks[lastOp.hs[1]].addr

\* C13: no step changes the target, detour or trampoline of a record that
\* exists, and trampoline() returns the record's trampoline field.
C13_RecordFieldsFixed ==
    [][/\ Len(hooks') >= Len(hooks)
       /\ \A i \in 1..Len(hooks) : hooks'[i] = hooks[i]
       /\ lastOp'.op = "trampoline" =>
             lastOp'.ret = hooks[lastOp'.hs[1]].trampoline]_vars

\* trampoline() is called on a record whose hook is Enabled, with a second
\* record constructed.
C13_Witness ==
    /\ lastOp.op = "trampoline"
    /\ Len(hooks) = 2
    /\ mhTable[hooks[lastOp.hs[1]].addr].isEnabled

\* C14: every apply_queue that has returned has made one submission per
\* record whatever the statuses, has called MH_ApplyQueued exactly once and
\* has returned normally.
C14_AlwaysCommitsOnce ==
    (lastOp.op = "apply_queue" /\ ~aq.active) =>
        /\ Cardinality({i \in 1..Len(mhCalls) :
                           mhCalls[i].fn = "MH_ApplyQueued"}) = 1
        /\ Cardinality({i \in 1..Len(mhCalls) :
                           mhCalls[i].fn # "MH_ApplyQueued"}) = Len(lastOp.hs)
        /\ lastOp.ret = "unit"

\* The sample taken by the call before the latest one (the constructor's for
\* the first call).
SampleBefore ==
    IF Len(swapLog) <= 1 THEN seed ELSE swapLog[Len(swapLog) - 1].written

\* C15: with one polling thread every keyup or keydown stores its own sample
\* whatever it returns, and it returns true exactly when its sample differs
\* from the sample of the call before it and the query matches the new
\* state; so a change is reported by the first call that samples it or by
\* none, and a call that sees no change returns false.
C15_EachChangeConsumedOnce ==
    lastRet.valid =>
        /\ stored = lastRet.state
        /\ lastSample = lastRet.state \/ pc[1] = "swap"
        /\ lastRet.ret <=>
              /\ SampleBefore # lastRet.state
              /\ lastRet.query = (IF lastRet.state THEN "keydown" ELSE "keyup")

\* A keydown call sampled a release, returned false and still stored the
\* new state.
C15_Witness ==
    /\ lastRet.valid
    /\ lastRet.query = "keydown"
    /\ SampleBefore
    /\ ~lastRet.state
    /\ ~lastRet.ret
    /\ ~stored

====
